---- MODULE Spec2Model ----
(***************************************************************************)
(* Model of code/live_price_tracker.py: the main flow (symbol validation   *)
(* followed by live_tracker) and the sampling loop of live_tracker with    *)
(* its CSV sink and its chart.                                             *)
(*                                                                         *)
(* Time is counted in whole clock units: datetime.now() reads `clock`,     *)
(* the price fetch takes 0..MaxLatency units and time.sleep(refresh_sec)   *)
(* takes at least refresh_sec units.  duration_min and refresh_sec are     *)
(* expressed in the same unit.                                             *)
(***************************************************************************)
EXTENDS Integers, Sequences, FiniteSets, TLC

\* ---------------------------------------------------------------- bounds
MaxDuration == 3      \* largest duration_min tried
MaxRefresh == 2       \* largest refresh_sec tried
MaxLatency == 1       \* longest price fetch
MaxOversleep == 1     \* most that time.sleep may overshoot
MaxPrice == 3         \* the positive price tried

MaxTickers == 3       \* longest ticker list read from the input file
MaxEntries == 3       \* most entries of a time series in a response

None == -1            \* a local that has not been assigned yet

\* last_price values tried: a negative one, zero and a positive one
PriceSet == {-2, 0, MaxPrice}

\* what may follow --save_csv / --show_plot on the command line
ArgValues == {"absent", "False", ""}

\* the command lines tried: no flag, the documented `--save_csv False
\* --show_plot False`, and an empty text for either flag or both
CommandLines ==
    {[save_csv |-> "absent", show_plot |-> "absent"],
     [save_csv |-> "False", show_plot |-> "False"],
     [save_csv |-> "", show_plot |-> "absent"],
     [save_csv |-> "absent", show_plot |-> ""],
     [save_csv |-> "", show_plot |-> ""]}

VARIABLES
    pc,            \* position of the process in the script
    argv,          \* the values given to --save_csv and --show_plot
    clock,         \* the wall clock (datetime.now())
    duration_min, refresh_sec, save_csv, show_plot,   \* arguments of live_tracker
    lookup,        \* outcome of ticker.history() inside is_valid_symbol
    end_time, prices, price, now,                     \* locals of live_tracker
    disk,          \* <symbol>_realtime_price.csv as stored on disk
    f,             \* the file object of the `with open(...)` in progress
    exc,           \* origin of the exception caught by the current tick
    fig, line_data, ylim,                             \* the chart
    ticks,         \* history: loop iterations entered
    log,           \* history: per tick, <<>> (fetch failed) or the sample
    errors,        \* history: "Error retrieving data" lines printed
    sink_errors,   \* history: failed appends to the CSV inside the loop
    sleeps,        \* history: time.sleep calls
    last_attempt   \* history: clock at the start of the latest price fetch

config == <<argv, duration_min, refresh_sec, save_csv, show_plot>>
locals == <<end_time, prices, price, now>>
chart == <<fig, line_data, ylim>>
history == <<ticks, log, errors, sink_errors, sleeps, last_attempt>>
tracker == <<pc, clock, config, lookup, locals, disk, f, exc, chart, history>>

\* code/get_history_from_csv.py, the main block
VARIABLES
    b_pc,          \* position in the main block
    csv_symbols,   \* the Symbol column of the input file
    tickers,       \* df["Symbol"].tolist()
    idx,           \* how many elements the for loop has taken from tickers
    symbol,        \* the loop variable
    count,         \* the counter
    valid,         \* what is_valid_symbol returned for symbol
    saved,         \* the symbols whose <symbol>_historical_daily.csv was written
    validated,     \* history: <<symbol, result>> of every is_valid_symbol call
    called,        \* history: the symbols fetch_and_save was called with
    handled,       \* history: the symbols whose iteration has ended
    b_errors       \* history: "Error with ..." lines printed

batch == <<b_pc, csv_symbols, tickers, idx, symbol, count, valid, saved,
           validated, called, handled, b_errors>>

\* code/getAssetHistory.py, fetch_and_save
VARIABLES
    a_pc,          \* position in fetch_and_save
    function,      \* the function argument
    data,          \* response.json(): its top-level keys and the time series
    json_file,     \* <symbol>_<function>.json
    csv_file,      \* <symbol>_<function>.csv
    ts_key,        \* the key chosen for the function
    timeseries,    \* data[ts_key], in the order of the response
    todo,          \* what is left of sorted(timeseries.items())
    warned         \* the warning was printed

alpha == <<a_pc, function, data, json_file, csv_file, ts_key, timeseries, todo, warned>>

vars == <<tracker, batch, alpha>>

\* ------------------------------------------------------------ the CSV file
Header == <<"timestamp", "price">>
OldRow == <<"old", "row">>
NoFile == [exists |-> FALSE, rows |-> <<>>]
OldFile == [exists |-> TRUE, rows |-> <<Header, OldRow>>]
Closed == [open |-> FALSE, buf |-> <<>>]

\* now.isoformat(): the timestamp as text
IsoFormat(t) == ToString(t)

\* writer.writerow([now.isoformat(), price]): the row of one sample, as text
CsvRow(t, p) == <<IsoFormat(t), ToString(p)>>

\* (variant) opening without truncation, as mode 'a' would
OpenWKeep(d) == [exists |-> TRUE, rows |-> d.rows]

\* open(csv_filename, 'w'): creates the file or truncates it
OpenW(d) == [exists |-> TRUE, rows |-> <<>>]

\* open(csv_filename, 'a'): creates the file if missing, keeps its content
OpenA(d) == [exists |-> TRUE, rows |-> d.rows]

\* leaving the `with` block: the buffered rows reach the disk
CloseFlush(d, buf) == [exists |-> TRUE, rows |-> d.rows \o buf]

\* ------------------------------------------------------------ pure helpers
\* (variant) the except branch of is_valid_symbol lets the symbol through
IsValidSymbolLenient(outcome) == outcome # "empty"

\* is_valid_symbol: True only when history() returned a non-empty frame
IsValidSymbol(outcome) == outcome = "data"

\* (variant) the save_csv guard is dropped
PersistAlways(flag) == TRUE

\* `if save_csv:`
PersistEnabled(flag) == flag

\* (variant) the deadline itself still counts as inside the window
LoopCondInclusive(t, deadline) == t <= deadline

\* `while datetime.now() < end_time`
LoopCond(t, deadline) == t < deadline

\* time.sleep(secs) suspends for at least secs
SleepDurations(secs) == secs..(secs + MaxOversleep)

\* (variant) every sample reuses the timestamp of the first one
RecordSampleStale(series, t, p) ==
    Append(series, <<IF series = <<>> THEN t ELSE series[1][1], p>>)

\* prices.append((now, price))
RecordSample(series, t, p) == Append(series, <<t, p>>)

\* (variant) the handler leaves the loop
ExceptTargetBreak == "finish"

\* (variant) the handler goes straight back to the deadline test
ExceptTargetContinue == "loop_test"

\* where the `except Exception` handler continues: the sleep at the loop's end
ExceptTarget == "sleep"

\* (variant) the deadline is one unit too late
EndTimeLate(t, dur) == t + dur + 1

\* datetime.now() + timedelta(minutes=duration_min)
EndTime(t, dur) == t + dur

\* type=bool of argparse applies bool() to the text given; default=True
ArgBool(txt) == IF txt = "absent" THEN TRUE ELSE txt # ""

Max2(a, b) == IF a >= b THEN a ELSE b
SeqMin(vals) == CHOOSE v \in {vals[i] : i \in 1..Len(vals)} :
                    \A i \in 1..Len(vals) : v <= vals[i]
SeqMax(vals) == CHOOSE v \in {vals[i] : i \in 1..Len(vals)} :
                    \A i \in 1..Len(vals) : v >= vals[i]

\* chart ordinates are kept in thousandths of a price unit
Milli == 1000
NoLim == <<>>

\* (variant) the 0.01 floor of the margin is left out
MarginNoFloor(vmax) == 5 * vmax

\* margin = max(0.005 * vmax, 0.01), in thousandths
Margin(vmax) == Max2(5 * vmax, 10)

\* ax.set_ylim(vmin - margin, vmax + margin) over vals = the prices of the series
YLim(series) ==
    LET vals == [i \in 1..Len(series) |-> series[i][2]]
        vmin == SeqMin(vals)
        vmax == SeqMax(vals)
    IN  <<Milli * vmin - Margin(vmax), Milli * vmax + Margin(vmax)>>

AfterCsv == IF show_plot THEN "plot" ELSE "sleep"
AfterRecord == IF PersistEnabled(save_csv) THEN "append_open" ELSE AfterCsv

\* ------------------------------------------------------------------- Init
TrackerInit ==
    /\ pc = "validate"
    /\ clock = 0
    /\ duration_min \in 0..MaxDuration
    /\ refresh_sec \in 1..MaxRefresh
    /\ argv \in CommandLines
    /\ save_csv = ArgBool(argv.save_csv)
    /\ show_plot = ArgBool(argv.show_plot)
    /\ lookup = "pending"
    /\ end_time = None /\ prices = <<>> /\ price = None /\ now = None
    /\ disk \in {NoFile, OldFile}
    /\ f = Closed
    /\ exc = "none"
    /\ fig = "none" /\ line_data = <<>> /\ ylim = NoLim
    /\ ticks = 0 /\ log = <<>> /\ errors = 0 /\ sink_errors = 0 /\ sleeps = 0
    /\ last_attempt = None

\* the tracker is not the script being run
TrackerOff ==
    /\ pc = "off"
    /\ clock = 0
    /\ argv = [save_csv |-> "absent", show_plot |-> "absent"]
    /\ duration_min = 0 /\ refresh_sec = 1
    /\ save_csv = TRUE /\ show_plot = TRUE
    /\ lookup = "pending"
    /\ end_time = None /\ prices = <<>> /\ price = None /\ now = None
    /\ disk = NoFile
    /\ f = Closed
    /\ exc = "none"
    /\ fig = "none" /\ line_data = <<>> /\ ylim = NoLim
    /\ ticks = 0 /\ log = <<>> /\ errors = 0 /\ sink_errors = 0 /\ sleeps = 0
    /\ last_attempt = None

NoSymbol == ""

\* get_history_from_csv.py is not the script being run
BatchOff ==
    /\ b_pc = "off"
    /\ csv_symbols = <<>> /\ tickers = <<>> /\ idx = 0
    /\ symbol = NoSymbol /\ count = 0 /\ valid = FALSE
    /\ saved = {}
    /\ validated = <<>> /\ called = <<>> /\ handled = <<>> /\ b_errors = 0

NoKey == ""
NoData == [ts |-> NoKey, series |-> <<>>]
NoJson == [exists |-> FALSE, content |-> NoData]

\* getAssetHistory.fetch_and_save is not being called
AlphaOff ==
    /\ a_pc = "off"
    /\ function = "" /\ data = NoData
    /\ json_file = NoJson /\ csv_file = NoFile
    /\ ts_key = NoKey /\ timeseries = <<>> /\ todo = <<>>
    /\ warned = FALSE

\* live_price_tracker.py is run
Init == TrackerInit /\ BatchOff /\ AlphaOff

\* ------------------------------------------------------------ main flow
\* if is_valid_symbol(symbol): live_tracker(...)
Validate ==
    /\ pc = "validate"
    /\ \E outcome \in {"data", "empty", "throws"} :
          /\ lookup' = outcome
          /\ pc' = IF IsValidSymbol(outcome) THEN "start" ELSE "exit"
    /\ UNCHANGED <<clock, config, locals, disk, f, exc, chart, history>>
    /\ UNCHANGED <<batch, alpha>>

\* end_time = datetime.now() + timedelta(minutes=duration_min); prices = []
Start ==
    /\ pc = "start"
    /\ end_time' = EndTime(clock, duration_min)
    /\ prices' = <<>>
    /\ pc' = IF PersistEnabled(save_csv) THEN "init_open"
             ELSE IF show_plot THEN "init_plot" ELSE "loop_test"
    /\ UNCHANGED <<clock, config, lookup, price, now, disk, f, exc, chart, history>>
    /\ UNCHANGED <<batch, alpha>>

\* the process is gone: its memory and its display surface are discarded
Gone ==
    /\ end_time' = None /\ prices' = <<>> /\ price' = None /\ now' = None
    /\ f' = Closed
    /\ exc' = "none"
    /\ fig' = "none" /\ line_data' = <<>> /\ ylim' = NoLim

\* --------------------------------------------- live_tracker: initialisation
\* with open(csv_filename, 'w', ...) as f:   (outside any try: a failure is fatal)
InitOpen ==
    /\ pc = "init_open"
    /\ \/ /\ disk' = OpenW(disk)
          /\ f' = [open |-> TRUE, buf |-> <<>>]
          /\ pc' = "init_writerow"
          /\ UNCHANGED <<locals, exc, chart>>
       \/ /\ pc' = "crashed"
          /\ Gone
          /\ UNCHANGED disk
    /\ UNCHANGED <<clock, config, lookup, history>>
    /\ UNCHANGED <<batch, alpha>>

\* writer.writerow(['timestamp', 'price'])
InitWriteRow ==
    /\ pc = "init_writerow"
    /\ f' = [open |-> TRUE, buf |-> Append(f.buf, Header)]
    /\ pc' = "init_close"
    /\ UNCHANGED <<clock, config, lookup, locals, disk, exc, chart, history>>
    /\ UNCHANGED <<batch, alpha>>

\* end of the `with` block: flush and close
InitClose ==
    /\ pc = "init_close"
    /\ \/ /\ disk' = CloseFlush(disk, f.buf)
          /\ f' = Closed
          /\ pc' = IF show_plot THEN "init_plot" ELSE "loop_test"
          /\ UNCHANGED <<locals, exc, chart>>
       \/ /\ pc' = "crashed"
          /\ Gone
          /\ UNCHANGED disk
    /\ UNCHANGED <<clock, config, lookup, history>>
    /\ UNCHANGED <<batch, alpha>>

\* plt.ion() ... plt.show(block=False)   (outside any try: a failure is fatal)
InitPlot ==
    /\ pc = "init_plot"
    /\ \/ /\ fig' = "live"
          /\ pc' = "loop_test"
          /\ UNCHANGED <<locals, f, exc, line_data, ylim>>
       \/ /\ pc' = "crashed"
          /\ Gone
    /\ UNCHANGED <<clock, config, lookup, disk, history>>
    /\ UNCHANGED <<batch, alpha>>

\* ------------------------------------------- live_tracker: the sampling loop
\* while datetime.now() < end_time:
LoopTest ==
    /\ pc = "loop_test"
    /\ IF LoopCond(clock, end_time)
       THEN /\ pc' = "fetch"
            /\ ticks' = ticks + 1
            /\ exc' = "none"
       ELSE /\ pc' = "finish"
            /\ UNCHANGED <<ticks, exc>>
    /\ UNCHANGED <<clock, config, lookup, locals, disk, f, chart,
                   log, errors, sink_errors, sleeps, last_attempt>>
    /\ UNCHANGED <<batch, alpha>>

\* price = yf.Ticker(symbol).fast_info.last_price; now = datetime.now()
\* prices.append((now, price)); print(...)
Fetch ==
    /\ pc = "fetch"
    /\ last_attempt' = clock
    /\ \E lat \in 0..MaxLatency :
          /\ clock' = clock + lat
          /\ \/ /\ exc' = "fetch"
                /\ log' = Append(log, <<>>)
                /\ pc' = "except"
                /\ UNCHANGED <<prices, price, now>>
             \/ \E p \in PriceSet :
                /\ price' = p
                /\ now' = clock'
                /\ prices' = RecordSample(prices, clock', p)
                /\ log' = Append(log, <<clock', p>>)
                /\ pc' = AfterRecord
                /\ UNCHANGED exc
    /\ UNCHANGED <<config, lookup, end_time, disk, f, chart,
                   ticks, errors, sink_errors, sleeps>>
    /\ UNCHANGED <<batch, alpha>>

\* with open(csv_filename, 'a', ...) as f:
AppendOpen ==
    /\ pc = "append_open"
    /\ \/ /\ disk' = OpenA(disk)
          /\ f' = [open |-> TRUE, buf |-> <<>>]
          /\ pc' = "append_writerow"
          /\ UNCHANGED <<exc, sink_errors>>
       \/ /\ exc' = "sink"
          /\ sink_errors' = sink_errors + 1
          /\ pc' = "except"
          /\ UNCHANGED <<disk, f>>
    /\ UNCHANGED <<clock, config, lookup, locals, chart, ticks, log, errors, sleeps,
                   last_attempt>>
    /\ UNCHANGED <<batch, alpha>>

\* writer.writerow([now.isoformat(), price])
AppendWriteRow ==
    /\ pc = "append_writerow"
    /\ f' = [open |-> TRUE, buf |-> Append(f.buf, CsvRow(now, price))]
    /\ pc' = "append_close"
    /\ UNCHANGED <<clock, config, lookup, locals, disk, exc, chart, history>>
    /\ UNCHANGED <<batch, alpha>>

\* (variant) the file object is left open and unflushed after the row is written
AppendCloseKeepOpen ==
    /\ pc = "append_close"
    /\ pc' = AfterCsv
    /\ UNCHANGED <<clock, config, lookup, locals, disk, f, exc, chart, history>>
    /\ UNCHANGED <<batch, alpha>>

\* end of the `with` block: flush and close; a failing flush raises inside the try
AppendClose ==
    /\ pc = "append_close"
    /\ f' = Closed
    /\ \/ /\ disk' = CloseFlush(disk, f.buf)
          /\ pc' = AfterCsv
          /\ UNCHANGED <<exc, sink_errors>>
       \/ /\ exc' = "sink"
          /\ sink_errors' = sink_errors + 1
          /\ pc' = "except"
          /\ UNCHANGED disk
    /\ UNCHANGED <<clock, config, lookup, locals, chart, ticks, log, errors, sleeps,
                   last_attempt>>
    /\ UNCHANGED <<batch, alpha>>

\* line.set_data(times, vals) ... ax.figure.canvas.flush_events()
\* zip and set_data go through; the failure, if any, comes while the limits are
\* computed (before set_ylim) or while the canvas is drawn (after it)
Plot ==
    /\ pc = "plot"
    /\ line_data' = prices
    /\ \/ /\ ylim' = YLim(prices)
          /\ pc' = "sleep"
          /\ UNCHANGED exc
       \/ /\ ylim' \in {ylim, YLim(prices)}
          /\ exc' = "plot"
          /\ pc' = "except"
    /\ UNCHANGED <<clock, config, lookup, locals, disk, f, fig, history>>
    /\ UNCHANGED <<batch, alpha>>

\* except Exception as e: print(f"Error retrieving data: {e}")
Except ==
    /\ pc = "except"
    /\ errors' = errors + 1
    /\ pc' = ExceptTarget
    /\ UNCHANGED <<clock, config, lookup, locals, disk, f, exc, chart,
                   ticks, log, sink_errors, sleeps, last_attempt>>
    /\ UNCHANGED <<batch, alpha>>

\* time.sleep(refresh_sec)
Sleep ==
    /\ pc = "sleep"
    /\ \E d \in SleepDurations(refresh_sec) : clock' = clock + d
    /\ sleeps' = sleeps + 1
    /\ pc' = "loop_test"
    /\ UNCHANGED <<config, lookup, locals, disk, f, exc, chart,
                   ticks, log, errors, sink_errors, last_attempt>>
    /\ UNCHANGED <<batch, alpha>>

\* print("Finished tracking ..."); if show_plot: plt.ioff(); plt.show()
Finish ==
    /\ pc = "finish"
    /\ fig' = IF show_plot THEN "final" ELSE fig
    /\ pc' = "done"
    /\ UNCHANGED <<clock, config, lookup, locals, disk, f, exc, line_data, ylim,
                   history>>
    /\ UNCHANGED <<batch, alpha>>

\* ------------------------------------------------------------ environment
SessionPcs == {"start", "init_open", "init_writerow", "init_close", "init_plot",
               "loop_test", "fetch", "append_open", "append_writerow",
               "append_close", "plot", "except", "sleep", "finish"}

\* the process is interrupted or killed from outside while the session runs:
\* what is on disk stays, rows still buffered in an open file may or may not
\* reach it
Interrupt ==
    /\ pc \in SessionPcs
    /\ pc' = "killed"
    /\ disk' \in IF f.open THEN {disk, CloseFlush(disk, f.buf)} ELSE {disk}
    /\ Gone
    /\ UNCHANGED <<clock, config, lookup, history>>
    /\ UNCHANGED <<batch, alpha>>

Next ==
    \/ Validate
    \/ Start
    \/ InitOpen
    \/ InitWriteRow
    \/ InitClose
    \/ InitPlot
    \/ LoopTest
    \/ Fetch
    \/ AppendOpen
    \/ AppendWriteRow
    \/ AppendClose
    \/ Plot
    \/ Except
    \/ Sleep
    \/ Finish
    \/ Interrupt

Spec == Init /\ [][Next]_vars

\* the session left to run: nobody interrupts it, and the single thread always
\* takes its next step (every call returns, the clock advances in the sleeps)
LiveNext ==
    \/ Validate
    \/ Start
    \/ InitOpen
    \/ InitWriteRow
    \/ InitClose
    \/ InitPlot
    \/ LoopTest
    \/ Fetch
    \/ AppendOpen
    \/ AppendWriteRow
    \/ AppendClose
    \/ Plot
    \/ Except
    \/ Sleep
    \/ Finish

LiveSpec == Init /\ [][LiveNext]_vars /\ WF_vars(LiveNext)

\* ------------------------------------- get_history_from_csv.py: main block
BatchSymbols == {"AAA", "BBB"}

\* the lists of at most n elements of S
ListsUpTo(S, n) == UNION {[1..k -> S] : k \in 0..n}

\* is_valid_symbol of get_history_from_csv.py
BatchIsValidSymbol(outcome) == outcome = "data"

\* (variant) an exception ends the for loop
BatchExceptTargetAbort == "end"

\* after `except Exception` the iteration goes on with count += 1
BatchExceptTarget == "count"

BatchInit ==
    /\ TrackerOff /\ AlphaOff
    /\ b_pc = "load"
    /\ csv_symbols \in ListsUpTo(BatchSymbols, MaxTickers)
    /\ tickers = <<>> /\ idx = 0
    /\ symbol = NoSymbol /\ count = 0 /\ valid = FALSE
    /\ saved \in SUBSET BatchSymbols
    /\ validated = <<>> /\ called = <<>> /\ handled = <<>> /\ b_errors = 0

\* delimiter = get_csv_delimiter(args.name); df = pd.read_csv(...)
\* tickers = df["Symbol"].tolist(); count = 0     (outside any try)
BatchLoad ==
    /\ b_pc = "load"
    /\ \/ /\ tickers' = csv_symbols
          /\ count' = 0
          /\ b_pc' = "for"
       \/ /\ b_pc' = "crashed"
          /\ UNCHANGED <<tickers, count>>
    /\ UNCHANGED <<csv_symbols, idx, symbol, valid, saved,
                   validated, called, handled, b_errors>>
    /\ UNCHANGED <<tracker, alpha>>

\* for symbol in tickers: print(...)
BatchFor ==
    /\ b_pc = "for"
    /\ IF idx < Len(tickers)
       THEN /\ idx' = idx + 1
            /\ symbol' = tickers[idx + 1]
            /\ b_pc' = "is_valid"
       ELSE /\ b_pc' = "end"
            /\ UNCHANGED <<idx, symbol>>
    /\ UNCHANGED <<csv_symbols, tickers, count, valid, saved,
                   validated, called, handled, b_errors>>
    /\ UNCHANGED <<tracker, alpha>>

\* try: if is_valid_symbol(symbol):
BatchIsValid ==
    /\ b_pc = "is_valid"
    /\ \E outcome \in {"data", "empty", "throws"} :
          /\ valid' = BatchIsValidSymbol(outcome)
          /\ validated' = Append(validated, <<symbol, valid'>>)
          /\ b_pc' = IF valid' THEN "info" ELSE "count"
    /\ UNCHANGED <<csv_symbols, tickers, idx, symbol, count, saved,
                   called, handled, b_errors>>
    /\ UNCHANGED <<tracker, alpha>>

\* ticker = yf.Ticker(symbol); info = ticker.info; name = ...; print(...)
BatchInfo ==
    /\ b_pc = "info"
    /\ b_pc' \in {"fetch_and_save", "except"}
    /\ UNCHANGED <<csv_symbols, tickers, idx, symbol, count, valid, saved,
                   validated, called, handled, b_errors>>
    /\ UNCHANGED <<tracker, alpha>>

\* fetch_and_save(symbol): writes the CSV, returns without one (no data, or a
\* to_csv error it reports itself), or raises before its own try
BatchFetchAndSave ==
    /\ b_pc = "fetch_and_save"
    /\ called' = Append(called, symbol)
    /\ \/ /\ saved' = saved \cup {symbol}
          /\ b_pc' = "count"
       \/ /\ b_pc' \in {"count", "except"}
          /\ UNCHANGED saved
    /\ UNCHANGED <<csv_symbols, tickers, idx, symbol, count, valid,
                   validated, handled, b_errors>>
    /\ UNCHANGED <<tracker, alpha>>

\* except Exception as e: print(f"Error with {symbol}: {e}")
BatchExcept ==
    /\ b_pc = "except"
    /\ b_errors' = b_errors + 1
    /\ b_pc' = BatchExceptTarget
    /\ UNCHANGED <<csv_symbols, tickers, idx, symbol, count, valid, saved,
                   validated, called, handled>>
    /\ UNCHANGED <<tracker, alpha>>

\* count += 1; print(...)
BatchCount ==
    /\ b_pc = "count"
    /\ count' = count + 1
    /\ handled' = Append(handled, symbol)
    /\ b_pc' = "for"
    /\ UNCHANGED <<csv_symbols, tickers, idx, symbol, valid, saved,
                   validated, called, b_errors>>
    /\ UNCHANGED <<tracker, alpha>>

BatchNext ==
    \/ BatchLoad
    \/ BatchFor
    \/ BatchIsValid
    \/ BatchInfo
    \/ BatchFetchAndSave
    \/ BatchExcept
    \/ BatchCount

BatchSpec == BatchInit /\ [][BatchNext]_vars

\* ----------------------------------------- getAssetHistory.py: fetch_and_save
AlphaSymbol == "IBM"
AlphaHeader == <<"date", "symbol", "open", "high", "low", "close", "volume">>
AlphaOldFile == [exists |-> TRUE, rows |-> <<AlphaHeader, <<"old">>>>]

KnownFunctions == {"TIME_SERIES_DAILY", "TIME_SERIES_WEEKLY",
                   "TIME_SERIES_MONTHLY", "TIME_SERIES_INTRADAY"}
\* the function arguments tried: the four known ones and another one
Functions == KnownFunctions \cup {"GLOBAL_QUOTE"}

\* the if / elif chain choosing ts_key; params has no 'interval', so the
\* intraday key is built from the default '5min'
TsKey(fn) ==
    CASE fn = "TIME_SERIES_DAILY" -> "Time Series (Daily)"
      [] fn = "TIME_SERIES_WEEKLY" -> "Weekly Time Series"
      [] fn = "TIME_SERIES_MONTHLY" -> "Monthly Time Series"
      [] fn = "TIME_SERIES_INTRADAY" -> "Time Series (5min)"
      [] OTHER -> NoKey

\* date keys are fixed-width digit strings, here of two digits
AlphaDates == {<<0, 9>>, <<1, 0>>, <<1, 1>>, <<2, 0>>}

\* the responses tried: an error document without a series, or a series of
\* distinct dates, in any order, under one of the series keys
Responses ==
    {NoData} \cup
    {[ts |-> k, series |-> sq] :
        k \in {"Time Series (Daily)", "Weekly Time Series", "Time Series (5min)"},
        sq \in {q \in ListsUpTo(AlphaDates, MaxEntries) :
                   \A i, j \in 1..Len(q) : i # j => q[i] # q[j]}}

\* comparison of two keys as Python compares strings
LexLess(x, y) == x[1] < y[1] \/ (x[1] = y[1] /\ x[2] < y[2])

RECURSIVE SortedItems(_)

\* (variant) the items are taken in the order of the response
SortedItemsUnsorted(items) == items

\* sorted(timeseries.items()): the keys are unique, so the key alone decides
SortedItems(items) ==
    IF items = <<>> THEN <<>>
    ELSE LET first == CHOOSE x \in {items[i] : i \in 1..Len(items)} :
                        \A i \in 1..Len(items) : x = items[i] \/ LexLess(x, items[i])
         IN  <<first>> \o SortedItems(SelectSeq(items, LAMBDA e : e # first))

\* writer.writerow([date_str, symbol, daily_data['1. open'], ...]): the five
\* cells are those the response holds for that date
AlphaRow(d) == <<d, AlphaSymbol>> \o [k \in 1..5 |-> <<d, k>>]

AlphaInit ==
    /\ TrackerOff /\ BatchOff
    /\ a_pc = "request"
    /\ function \in Functions
    /\ data \in Responses
    /\ json_file = NoJson
    /\ csv_file \in {NoFile, AlphaOldFile}
    /\ ts_key = NoKey /\ timeseries = <<>> /\ todo = <<>>
    /\ warned = FALSE

\* response = requests.get(...); response.raise_for_status(); data = response.json()
AlphaRequest ==
    /\ a_pc = "request"
    /\ a_pc' \in {"write_json", "crashed"}
    /\ UNCHANGED <<function, data, json_file, csv_file, ts_key, timeseries, todo, warned>>
    /\ UNCHANGED <<tracker, batch>>

\* with open(json_filename, 'w', ...) as fjson: json.dump(data, fjson, indent=4)
AlphaWriteJson ==
    /\ a_pc = "write_json"
    /\ \/ /\ json_file' = [exists |-> TRUE, content |-> data]
          /\ a_pc' = "select_key"
       \/ /\ json_file' \in {json_file, [exists |-> TRUE, content |-> NoData]}
          /\ a_pc' = "crashed"
    /\ UNCHANGED <<function, data, csv_file, ts_key, timeseries, todo, warned>>
    /\ UNCHANGED <<tracker, batch>>

\* if function == 'TIME_SERIES_DAILY': ... else: ts_key = None
AlphaSelectKey ==
    /\ a_pc = "select_key"
    /\ ts_key' = TsKey(function)
    /\ a_pc' = "check_key"
    /\ UNCHANGED <<function, data, json_file, csv_file, timeseries, todo, warned>>
    /\ UNCHANGED <<tracker, batch>>

\* if ts_key is None or ts_key not in data: print(Warning ...); return
\* timeseries = data[ts_key]
AlphaCheckKey ==
    /\ a_pc = "check_key"
    /\ IF ts_key = NoKey \/ ts_key # data.ts
       THEN /\ warned' = TRUE
            /\ a_pc' = "returned"
            /\ UNCHANGED timeseries
       ELSE /\ timeseries' = data.series
            /\ a_pc' = "open_csv"
            /\ UNCHANGED warned
    /\ UNCHANGED <<function, data, json_file, csv_file, ts_key, todo>>
    /\ UNCHANGED <<tracker, batch>>

\* with open(csv_filename, 'w', ...) as fcsv:
AlphaOpenCsv ==
    /\ a_pc = "open_csv"
    /\ \/ /\ csv_file' = OpenW(csv_file)
          /\ a_pc' = "write_header"
       \/ /\ a_pc' = "crashed"
          /\ UNCHANGED csv_file
    /\ UNCHANGED <<function, data, json_file, ts_key, timeseries, todo, warned>>
    /\ UNCHANGED <<tracker, batch>>

\* writer.writerow(['date', 'symbol', ...]); the for loop starts over the sorted items
AlphaWriteHeader ==
    /\ a_pc = "write_header"
    /\ csv_file' = [exists |-> TRUE, rows |-> Append(csv_file.rows, AlphaHeader)]
    /\ todo' = SortedItems(timeseries)
    /\ a_pc' = "write_rows"
    /\ UNCHANGED <<function, data, json_file, ts_key, timeseries, warned>>
    /\ UNCHANGED <<tracker, batch>>

\* one iteration of the for loop, or its end: the file is closed, "Saved CSV"
AlphaWriteRow ==
    /\ a_pc = "write_rows"
    /\ IF todo # <<>>
       THEN /\ csv_file' = [exists |-> TRUE,
                            rows |-> Append(csv_file.rows, AlphaRow(Head(todo)))]
            /\ todo' = Tail(todo)
            /\ UNCHANGED a_pc
       ELSE /\ a_pc' = "returned"
            /\ UNCHANGED <<csv_file, todo>>
    /\ UNCHANGED <<function, data, json_file, ts_key, timeseries, warned>>
    /\ UNCHANGED <<tracker, batch>>

AlphaNext ==
    \/ AlphaRequest
    \/ AlphaWriteJson
    \/ AlphaSelectKey
    \/ AlphaCheckKey
    \/ AlphaOpenCsv
    \/ AlphaWriteHeader
    \/ AlphaWriteRow

AlphaSpec == AlphaInit /\ [][AlphaNext]_vars

\* ------------------------------------------------------------------ typing
Samples == Seq(Int \X Int)

TypeOK ==
    /\ pc \in SessionPcs \cup {"validate", "exit", "done", "crashed", "killed"}
    /\ clock \in Nat
    /\ duration_min \in 0..MaxDuration /\ refresh_sec \in 1..MaxRefresh
    /\ argv \in [save_csv : ArgValues, show_plot : ArgValues]
    /\ save_csv \in BOOLEAN /\ show_plot \in BOOLEAN
    /\ lookup \in {"pending", "data", "empty", "throws"}
    /\ end_time \in Nat \cup {None}
    /\ price \in PriceSet \cup {None} /\ now \in Nat \cup {None}
    /\ disk.exists \in BOOLEAN /\ f.open \in BOOLEAN
    /\ exc \in {"none", "fetch", "sink", "plot"}
    /\ fig \in {"none", "live", "final"}
    /\ ticks \in Nat /\ errors \in Nat /\ sink_errors \in Nat /\ sleeps \in Nat
    /\ last_attempt \in Nat \cup {None}
    /\ ylim = NoLim \/ (Len(ylim) = 2 /\ ylim[1] \in Int /\ ylim[2] \in Int)

\* ------------------------------------------------------ helpers of the claims
MaxClock == MaxDuration + MaxLatency + MaxRefresh + MaxOversleep

\* the samples of the ticks whose fetch succeeded, in tick order
SampleLog == SelectSeq(log, LAMBDA e : e # <<>>)

Front(s) == SubSeq(s, 1, Len(s) - 1)

\* the CSV rows of a series of samples
Rows(series) == [i \in 1..Len(series) |-> CsvRow(series[i][1], series[i][2])]

\* the rows after the header
DataRows(d) == Tail(d.rows)

\* reading a timestamp back from its text
ParseIso(txt) == CHOOSE t \in 0..MaxClock : IsoFormat(t) = txt

Increasing(ts) == \A i \in 1..(Len(ts) - 1) : ts[i] < ts[i + 1]

Ceil(a, b) == (a + b - 1) \div b

\* positions after the initialisation of the CSV
AfterInitPcs == {"init_plot", "loop_test", "fetch", "append_open", "append_writerow",
                 "append_close", "plot", "except", "sleep", "finish", "done"}
\* positions between recording a sample in memory and the end of its append
InFlightPcs == {"append_open", "append_writerow", "append_close"}
\* positions inside one loop iteration
TickPcs == {"fetch", "append_open", "append_writerow", "append_close",
            "plot", "except", "sleep"}

\* ------------------------------------------------------------------ claims

\* C1: with save_csv, at every point after initialisation and for every
\* sequence of fetch outcomes (the sink itself working), the file is exactly
\* one header row, written over a truncated file, followed by one data row per
\* tick whose fetch succeeded (the sample being appended excepted until its
\* append ends); failed ticks add no row, so data rows <= attempted ticks.
C1_HeaderThenOneRowPerSuccess ==
    (save_csv /\ pc \in AfterInitPcs /\ sink_errors = 0) =>
        /\ disk.exists
        /\ disk.rows = <<Header>> \o
               Rows(IF pc \in InFlightPcs THEN Front(SampleLog) ELSE SampleLog)
        /\ Len(disk.rows) - 1 <= ticks

C1_Witness ==
    /\ save_csv /\ pc = "done" /\ sink_errors = 0
    /\ ticks = 3 /\ Len(SampleLog) = 2 /\ Len(disk.rows) = 3

\* C2: a tick whose fetch fails leaves the in-memory series and the file as
\* they were, the error is reported, and the loop goes on to its sleep and the
\* next deadline test; with 3 ticks and a failure on tick 2 only, the file ends
\* with exactly the 2 rows of ticks 1 and 3.
C2_FetchFailureNonFatal ==
    /\ [][((exc' = "fetch" \/ exc = "fetch") /\ pc' # "killed")
            => (prices' = prices /\ disk' = disk)]_vars
    /\ [][(exc = "fetch" /\ pc = "except" /\ pc' # "killed")
            => (errors' = errors + 1 /\ pc' = "sleep")]_vars
    /\ [][(exc = "fetch" /\ pc = "sleep" /\ pc' # "killed")
            => pc' = "loop_test"]_vars
    /\ []((/\ pc = "done" /\ save_csv /\ sink_errors = 0 /\ Len(log) = 3
           /\ log[1] # <<>> /\ log[2] = <<>> /\ log[3] # <<>>)
            => disk.rows = <<Header, CsvRow(log[1][1], log[1][2]),
                                     CsvRow(log[3][1], log[3][2])>>)

C2_Witness ==
    /\ pc = "done" /\ save_csv /\ sink_errors = 0 /\ Len(log) = 3
    /\ log[1] # <<>> /\ log[2] = <<>> /\ log[3] # <<>>
    /\ errors = 1 /\ Len(prices) = 2

\* C3 (as claimed): with save_csv, whenever the loop condition is evaluated the
\* data rows on disk are exactly the rows of the in-memory series, in order,
\* whatever the fetch and file-write outcomes were.
C3_DiskEqualsMemoryAtTickStart ==
    (save_csv /\ pc = "loop_test") => DataRows(disk) = Rows(prices)

\* C4 (as claimed): once an append to the CSV has failed inside the loop, the
\* session neither sleeps, nor tests the deadline, nor starts another tick, nor
\* completes normally.
C4_SinkFailureEndsLoop ==
    sink_errors > 0 =>
        pc \notin {"sleep", "loop_test", "fetch", "append_open", "append_writerow",
                   "append_close", "plot", "finish", "done"}

\* C5: consecutive entries of the in-memory series, and consecutive data rows
\* of the CSV, carry strictly increasing timestamps.
C5_TimestampsStrictlyIncrease ==
    /\ Increasing([i \in 1..Len(prices) |-> prices[i][1]])
    /\ (save_csv /\ pc \in AfterInitPcs) =>
          Increasing([i \in 1..Len(DataRows(disk)) |-> ParseIso(DataRows(disk)[i][1])])

C5_Witness ==
    /\ save_csv /\ pc = "done" /\ Len(prices) = 3 /\ Len(DataRows(disk)) = 3
    /\ prices[1][1] = 0 /\ prices[3][1] = 2

\* C6: with save_csv = False no step of the session creates, truncates or
\* appends to the file (nor opens it), while a tick whose fetch succeeds still
\* adds one sample to the in-memory series.
C6_NoFileTouchedWithoutPersist ==
    /\ [][(~save_csv) => (disk' = disk /\ ~f'.open)]_vars
    /\ [][(~save_csv /\ pc = "fetch" /\ pc' \notin {"except", "killed"})
            => Len(prices') = Len(prices) + 1]_vars

C6_Witness ==
    /\ ~save_csv /\ pc = "done" /\ disk = OldFile /\ Len(prices) = 2 /\ ticks = 3

\* C7: with duration_min = 0 the loop body is never entered: no fetch, no
\* sleep, an empty in-memory series, a CSV (when persisting) of the header row
\* alone, and the deadline test leads straight to completion.
C7_ZeroDurationZeroTicks ==
    duration_min = 0 =>
        /\ pc \notin TickPcs
        /\ ticks = 0 /\ log = <<>> /\ sleeps = 0 /\ errors = 0
        /\ prices = <<>>
        /\ (save_csv /\ pc \in AfterInitPcs) => disk.rows = <<Header>>

C7_Witness ==
    /\ duration_min = 0 /\ pc = "done" /\ save_csv /\ disk.rows = <<Header>>

\* C8 (as claimed): for positive duration and refresh interval the number of
\* loop iterations differs from ceil(duration / refresh_interval) by at most
\* one when the loop has ended, and the loop is left only from its head.
C8_TicksWithinOneOfCeil ==
    /\ []((pc = "done" /\ duration_min > 0) =>
            /\ ticks - Ceil(duration_min, refresh_sec) <= 1
            /\ Ceil(duration_min, refresh_sec) - ticks <= 1)
    /\ [][(pc' = "finish") => (pc = "loop_test" /\ ~LoopCond(clock, end_time))]_vars

\* C8 (amended): the number of loop iterations never exceeds
\* ceil(duration / refresh_interval); the loop ends only at its head, with
\* now >= deadline, and a started tick leaves the loop body only through the
\* end of its sleep.
C8_TicksAtMostCeil ==
    /\ [](duration_min > 0 => ticks <= Ceil(duration_min, refresh_sec))
    /\ [][(pc' = "finish") => (pc = "loop_test" /\ ~LoopCond(clock, end_time))]_vars
    /\ [][(pc \in TickPcs /\ pc' \notin TickPcs /\ pc' # "killed")
            => (pc = "sleep" /\ pc' = "loop_test" /\ sleeps' = sleeps + 1)]_vars

C8_Witness ==
    /\ pc = "done" /\ duration_min = 3 /\ refresh_sec = 2
    /\ ticks = Ceil(duration_min, refresh_sec) /\ sleeps = 2

\* C9: the tracker starts only after is_valid_symbol returned True; an empty
\* history and a throwing lookup both make it return False without raising,
\* and then no fetch is attempted and the CSV is neither created nor truncated.
C9_InvalidSymbolAborts ==
    /\ [](pc \in SessionPcs \cup {"done", "crashed", "killed"} => lookup = "data")
    /\ [](lookup \in {"empty", "throws"} =>
            /\ pc = "exit"
            /\ ticks = 0 /\ log = <<>> /\ end_time = None
            /\ ~f.open /\ disk \in {NoFile, OldFile})
    /\ [][(pc = "validate" \/ pc = "exit") => disk' = disk]_vars

C9_Witness ==
    /\ lookup = "throws" /\ pc = "exit" /\ disk = OldFile /\ ticks = 0

\* C10: no file object is held outside the three steps of one append (or of
\* the header write), an open one buffers at most one row, and an interrupt
\* keeps every row already on disk, losing at most the row in flight.
C10_InterruptKeepsWrittenRows ==
    /\ [](pc \notin (InFlightPcs \cup {"init_writerow", "init_close"}) => f = Closed)
    /\ [](f.open => Len(f.buf) <= 1)
    /\ [][(pc' = "killed" /\ pc \in AfterInitPcs) =>
            /\ disk'.exists = disk.exists
            /\ Len(disk.rows) <= Len(disk'.rows)
            /\ SubSeq(disk'.rows, 1, Len(disk.rows)) = disk.rows
            /\ Len(disk'.rows) <= Len(disk.rows) + 1
            /\ (save_csv /\ sink_errors = 0) =>
                   Len(SampleLog) - Len(DataRows(disk')) <= 1]_vars

C10_Witness ==
    /\ pc = "killed" /\ save_csv /\ ticks = 3 /\ Len(log) = 3
    /\ Len(SampleLog) = 3 /\ Len(disk.rows) = 3

\* C11: two consecutive price fetches start at least refresh_sec apart: every
\* tick, whatever its outcome, has slept once before the deadline is tested
\* again, so that the sleeps keep pace with the ticks.
C11_FetchesSpacedByRefresh ==
    /\ (pc = "fetch" /\ last_attempt # None) => clock - last_attempt >= refresh_sec
    /\ pc \in {"loop_test", "finish", "done"} => sleeps = ticks
    /\ pc \in TickPcs => sleeps = ticks - 1

C11_Witness ==
    /\ pc = "fetch" /\ ticks = 3 /\ errors = 2 /\ SampleLog = <<>>
    /\ clock - last_attempt = refresh_sec

\* C12 (as claimed): a failing chart setup does not end the session (the loop
\* is reached all the same), and a failing redraw leaves the sample of its tick
\* in the in-memory series and, when persisting, in the CSV.
C12_DisplayFailureNeverBlocks ==
    /\ [][(pc = "init_plot" /\ pc' # "killed") => pc' = "loop_test"]_vars
    /\ [][(pc = "plot" /\ pc' = "except") =>
            /\ prices' = prices /\ disk' = disk
            /\ prices # <<>> /\ prices[Len(prices)] = <<now, price>>
            /\ save_csv => DataRows(disk)[Len(DataRows(disk))] = CsvRow(now, price)]_vars

\* C13 (as claimed): an absent flag gives true, the text False gives false, and
\* with `--save_csv False --show_plot False` no file object is opened, the CSV
\* is left alone and no chart is opened.
C13_FalseFlagsDisableSinks ==
    /\ argv.save_csv = "absent" => save_csv
    /\ argv.show_plot = "absent" => show_plot
    /\ argv.save_csv = "False" => ~save_csv
    /\ argv.show_plot = "False" => ~show_plot
    /\ (argv.save_csv = "False" /\ argv.show_plot = "False") =>
          (~f.open /\ disk \in {NoFile, OldFile} /\ fig = "none")

\* the two states of the session
Sampling == pc \in TickPcs \cup {"loop_test"}
Done == pc \in {"finish", "done"}

\* C14: left to run, a session that is sampling eventually is done; it becomes
\* done only from the deadline test, with now >= deadline; and once done it
\* fetches, records and writes nothing more and never samples again.
C14_SamplingLeadsToDone ==
    /\ Sampling ~> Done
    /\ [][(Sampling /\ ~Sampling') =>
            (pc = "loop_test" /\ pc' = "finish" /\ clock >= end_time)]_vars
    /\ [][Done => (/\ Done'
                   /\ prices' = prices /\ disk' = disk /\ f' = f
                   /\ ticks' = ticks /\ log' = log)]_vars

C14_Witness ==
    /\ pc = "done" /\ ticks = 3 /\ clock >= end_time /\ errors = 3
    /\ fig = "final"

\* the values of a series, as a set
ValueSet(series) == {series[i][2] : i \in 1..Len(series)}

\* C15: after every chart update the vertical range is [vmin - m, vmax + m]
\* with m = max(0.5% of vmax, 0.01) over the whole in-memory series, m > 0, so
\* that the range starts strictly below vmin and ends strictly above vmax.
C15_YRangeHasPositiveMargin ==
    [][(pc = "plot" /\ pc' = "sleep") =>
         LET vmin == CHOOSE v \in ValueSet(prices) : \A w \in ValueSet(prices) : v <= w
             vmax == CHOOSE v \in ValueSet(prices) : \A w \in ValueSet(prices) : v >= w
             m == ylim'[2] - Milli * vmax
         IN  /\ line_data' = prices
             /\ ylim'[1] = Milli * vmin - m
             /\ m >= 5 * vmax /\ m >= 10 /\ m \in {5 * vmax, 10}
             /\ m > 0
             /\ ylim'[1] < Milli * vmin /\ ylim'[2] > Milli * vmax]_vars

C15_Witness ==
    /\ pc = "sleep" /\ exc = "none" /\ show_plot
    /\ ValueSet(line_data) = {-2, 0} /\ ylim = <<-2010, 10>>

\* C16 (as claimed): with save_csv and show_plot, at every moment the series
\* shown on the chart is a prefix of the data rows of the CSV, whatever the
\* fetch, file-write and redraw outcomes were.
C16_DisplayedSeriesIsOnDisk ==
    (save_csv /\ show_plot /\ pc \in AfterInitPcs) =>
        /\ Len(line_data) <= Len(DataRows(disk))
        /\ Rows(line_data) = SubSeq(DataRows(disk), 1, Len(line_data))

\* C17: the tickers are handled one at a time, in file order, each once;
\* fetch_and_save is called for a symbol only right after is_valid_symbol
\* returned True for it; an exception in one iteration is caught and counted,
\* the counter advances by one per symbol, and the loop ends only after the
\* whole list.
C17_SequentialAndErrorIsolated ==
    /\ [](b_pc \notin {"load", "crashed"} =>
            /\ tickers = csv_symbols
            /\ handled = SubSeq(tickers, 1, Len(handled))
            /\ count = Len(handled)
            /\ idx - count \in {0, 1}
            /\ (idx - count = 1) <=> (b_pc \in {"is_valid", "info", "fetch_and_save",
                                             "except", "count"})
            /\ (idx - count = 1) => symbol = tickers[idx]
            /\ Len(validated) \in {count, idx}
            /\ \A k \in 1..Len(validated) : validated[k][1] = tickers[k]
            /\ b_pc = "end" => (handled = tickers /\ count = Len(tickers)))
    /\ [][(called' # called) =>
            /\ called' = Append(called, symbol)
            /\ valid
            /\ Len(validated) = idx /\ validated[idx] = <<symbol, TRUE>>]_vars
    /\ [][(b_pc = "except") => (b_pc' = "count" /\ b_errors' = b_errors + 1)]_vars
    /\ [][(count' # count) => (count' = count + 1 /\ b_pc = "count")]_vars

C17_Witness ==
    /\ b_pc = "end" /\ Len(tickers) = 3 /\ count = 3 /\ b_errors = 2
    /\ tickers[1] = tickers[3] /\ tickers[1] # tickers[2]
    /\ Len(called) = 2 /\ called[2] = tickers[3] /\ validated[2][2] = FALSE

\* the date a key denotes
DateValue(d) == 10 * d[1] + d[2]

\* C18: the JSON file holds the response before the key is looked up; with
\* an unknown function or without the expected key the call returns with the
\* warning and never touches the CSV; otherwise the CSV ends as the header
\* followed by one row per entry of the series, dates ascending.
C18_JsonFirstThenCsvOrWarning ==
    /\ [](a_pc \in {"request", "write_json"} => (ts_key = NoKey /\ ~warned))
    /\ [](a_pc \in {"select_key", "check_key", "open_csv", "write_header",
                    "write_rows", "returned"}
            => json_file = [exists |-> TRUE, content |-> data])
    /\ [][(a_pc = "check_key" /\ (function \notin KnownFunctions \/ ts_key # data.ts))
            => (a_pc' = "returned" /\ warned')]_vars
    /\ [][warned' => csv_file' = csv_file]_vars
    /\ [](warned => a_pc = "returned")
    /\ []((a_pc = "returned" /\ ~warned) =>
            /\ function \in KnownFunctions
            /\ csv_file.exists
            /\ Len(csv_file.rows) = 1 + Len(data.series)
            /\ csv_file.rows[1] = AlphaHeader
            /\ \A k \in 1..Len(data.series) :
                  /\ csv_file.rows[k + 1] = AlphaRow(csv_file.rows[k + 1][1])
                  /\ \E i \in 1..Len(data.series) :
                        data.series[i] = csv_file.rows[k + 1][1]
            /\ \A k \in 1..(Len(data.series) - 1) :
                  DateValue(csv_file.rows[k + 1][1]) < DateValue(csv_file.rows[k + 2][1]))

C18_Witness ==
    /\ a_pc = "returned" /\ ~warned /\ function = "TIME_SERIES_WEEKLY"
    /\ data.series = <<<<2, 0>>, <<0, 9>>, <<1, 0>>>>
    /\ Len(csv_file.rows) = 4 /\ csv_file.rows[2][1] = <<0, 9>>

C18_WitnessWarning ==
    /\ a_pc = "returned" /\ warned /\ function = "TIME_SERIES_INTRADAY"
    /\ json_file.exists /\ csv_file = AlphaOldFile

====
